---- MODULE Spec2Model ----
(***************************************************************************)
(* A model of the app-store-screenshots pipeline: the Framer               *)
(* (01_input_framed/framer.ts), the Combiner (02_input_combined/           *)
(* combiner.ts) and the Splitter (03_splitter/splitter.ts).                *)
(*                                                                         *)
(*   Spec          the batch driver of the three command line programs     *)
(*   SpecSplitter  splitScreenshots / processDeviceConfig                  *)
(*   SpecFramer    frameScreenshot's geometry                              *)
(*   SpecCombiner  combineScreenshots' input discovery and layout          *)
(*   SpecComposite combineScreenshots' title and image layers              *)
(*   SpecTitle     generateTitleSvg                                        *)
(*   SpecLoad      loadTitles                                              *)
(*   SpecRerun     each program run twice over one file tree               *)
(*                                                                         *)
(* A path is a sequence of segments and a segment a sequence of tokens, so *)
(* that String.indexOf('screenshots') sees the word inside a longer        *)
(* directory name: the segment "framed_screenshots" is                     *)
(* <<"framed_", "screenshots">>.                                           *)
(***************************************************************************)
EXTENDS Integers, Sequences, FiniteSets, TLC

VARIABLES
    \* ---- batch driver (main of the three programs)
    stage,          \* which program runs: "framer", "combiner", "splitter"
    repoDir,        \* the segment naming the checkout directory
    targetLocale,   \* --locale <x>, or NoLocale
    targetDevice,   \* --device <x>, or NoDevice
    found,          \* pngFiles (framer) / allLocales (combiner, splitter)
    work,           \* filteredFiles / locales: the list the loop walks
    i,              \* the loop variable of the batch loop
    result,         \* per work index: "none", "ok" (success: true), "failed"
    attempts,       \* per work index: how often the item's closure was started
    processed,      \* let processed
    failed,         \* let failed
    threw,          \* the work indices whose stage function threw
    pc,             \* "scan", "loop", "await", "exited"
    exitCode,       \* the process exit status once pc = "exited" (-1 before)
    \* ---- splitter (splitScreenshots)
    sDeviceType,    \* options.deviceType
    sExists,        \* whether <input>/<deviceType>/<locale>/combined.png exists
    sWidth,         \* metadata.width of the combined image (0: missing)
    sHeight,        \* metadata.height of the combined image (0: missing)
    sPc,            \* "idle", "start", "configs", "done", "threw"
    sNext,          \* the index of the next entry of filteredConfigs
    sDirs,          \* the output directories created
    sFiles,         \* the slot files written, with the region each holds
    sGeom,          \* per processed config: the resize and crop it did
    \* ---- framer (frameScreenshot)
    fWidth,         \* inputMetadata.width
    fHeight,        \* inputMetadata.height
    fDeviceType,    \* options.deviceType
    fEdgeMargin,    \* options.settings.edgeMargin: Absent, Undefined or a number
    fOffset,        \* options.settings.screenshotOffset: Absent or [top, left]
    fPc,            \* "idle", "start", "done"
    fFrame,         \* what frameScreenshot composed
    \* ---- combiner (combineScreenshots)
    cDeviceType,    \* options.deviceType
    cReadable,      \* whether <framed>/<deviceType>/<locale> can be read
    cSlots,         \* the numbers n whose slot_n directory holds framed.png
    cPc,            \* "idle", "start", "done", "threw"
    cComposite,     \* the slots of the images in the composite written, or <<>>
    cBackground,    \* backgroundMetadata: <<width, height>>
    cImage,         \* metadata of the 1st, 3rd, 5th framed image: <<width, height>>
    cImageOther,    \* metadata of the 2nd and 4th framed image
    cTitle,         \* options.titles: the text given for each of the 4 slots
    cScaleFactor,   \* the scale factor in use, as <<numerator, denominator>>
    cSpacing,       \* options.spacing
    cFontSize,      \* options.titleFontSize
    cTitleSpacing,  \* options.titleSpacing
    cShadowOffset,  \* options.titleShadowOffset
    cCenter,        \* options.centerInQuarters
    cLayout,        \* what calculateCanvasDimensions returned
    cResized,       \* the background the layers are composed onto
    cOps,           \* the image layers handed to composite()
    cTitleOps,      \* the title layers handed to composite()
    \* ---- combiner (generateTitleSvg)
    tText,          \* text: a sequence of characters
    tFontSize,      \* fontSize
    tShadowOffset,  \* shadowOffset
    tWidth,         \* width
    tMaxLines,      \* maxLines: 1 or 2
    tPc,            \* "idle", "start", "done"
    tSvg,           \* the lines rendered and the svgHeight returned
    \* ---- combiner (loadTitles)
    lFile,          \* the locale's translation file
    lPc,            \* "idle", "start", "done"
    lTitles,        \* the titles returned
    \* ---- a stage run twice over one file tree
    rRepo,          \* the segment naming the checkout directory
    rFiles,         \* the file tree: the <<width, height>> of the image at each path
    rStage,         \* the program being run
    rRun,           \* 1: its first run, 2: its second run
    rPc,            \* "idle", "scan", "writing", "ended"
    rWork,          \* the work list the run's scan produced
    rLeft,          \* the work indices the run has not settled yet
    rWrote,         \* the files the run has written: [path, image]
    rFirstWork,     \* rWork of the stage's first run
    rFirstWrote,    \* rWrote at the end of the stage's first run
    rFirstFiles     \* rFiles at the end of the stage's first run

batchVars == <<stage, repoDir, targetLocale, targetDevice, found, work, i, result,
               attempts, processed, failed, threw, pc, exitCode>>

splitterVars == <<sDeviceType, sExists, sWidth, sHeight, sPc, sNext, sDirs, sFiles, sGeom>>

framerVars == <<fWidth, fHeight, fDeviceType, fEdgeMargin, fOffset, fPc, fFrame>>

combineInputs == <<cDeviceType, cReadable, cSlots, cBackground, cImage, cImageOther,
                   cTitle, cScaleFactor, cSpacing, cFontSize, cTitleSpacing,
                   cShadowOffset, cCenter>>

combineVars == <<combineInputs, cPc, cComposite, cLayout, cResized, cOps, cTitleOps>>

titleVars == <<tText, tFontSize, tShadowOffset, tWidth, tMaxLines, tPc, tSvg>>

loadVars == <<lFile, lPc, lTitles>>

combinerVars == <<combineVars, titleVars, loadVars>>

rerunVars == <<rRepo, rFiles, rStage, rRun, rPc, rWork, rLeft, rWrote, rFirstWork,
               rFirstWrote, rFirstFiles>>

vars == <<batchVars, splitterVars, framerVars, combinerVars, rerunVars>>

\* The parts of the state a specification does not use stay as they start.
IdleBatch ==
    /\ stage = "splitter" /\ repoDir = <<"repo">> /\ targetLocale = "--"
    /\ targetDevice = "--" /\ found = <<>> /\ work = <<>> /\ i = 0
    /\ result = <<>> /\ attempts = <<>> /\ processed = 0 /\ failed = 0
    /\ threw = {} /\ pc = "idle" /\ exitCode = -1

IdleSplitter ==
    /\ sDeviceType = "iphone" /\ sExists = FALSE /\ sWidth = 0 /\ sHeight = 0
    /\ sPc = "idle" /\ sNext = 0 /\ sDirs = {} /\ sFiles = {} /\ sGeom = <<>>

IdleFramer ==
    /\ fWidth = 0 /\ fHeight = 0 /\ fDeviceType = "iphone" /\ fEdgeMargin = "absent"
    /\ fOffset = "absent" /\ fPc = "idle" /\ fFrame = <<>>

IdleCombine ==
    /\ cDeviceType = "iphone" /\ cReadable = FALSE /\ cSlots = {} /\ cPc = "idle"
    /\ cComposite = <<>>
    /\ cBackground = <<0, 0>> /\ cImage = <<0, 0>> /\ cImageOther = <<0, 0>>
    /\ cTitle = <<>> /\ cTitleOps = <<>> /\ cScaleFactor = <<1, 1>>
    /\ cSpacing = 0 /\ cFontSize = 0 /\ cTitleSpacing = 0 /\ cShadowOffset = 0
    /\ cCenter = FALSE /\ cLayout = <<>> /\ cResized = <<>> /\ cOps = <<>>

IdleTitle ==
    /\ tText = <<>> /\ tFontSize = 0 /\ tShadowOffset = 0 /\ tWidth = 0
    /\ tMaxLines = 2 /\ tPc = "idle" /\ tSvg = <<>>

IdleLoad == lFile = <<>> /\ lPc = "idle" /\ lTitles = <<>>

IdleCombiner == IdleCombine /\ IdleTitle /\ IdleLoad

IdleRerun ==
    /\ rRepo = <<"repo">> /\ rFiles = <<>> /\ rStage = "framer" /\ rRun = 1
    /\ rPc = "idle" /\ rWork = <<>> /\ rLeft = {} /\ rWrote = {}
    /\ rFirstWork = <<>> /\ rFirstWrote = {} /\ rFirstFiles = <<>>

-----------------------------------------------------------------------------
(* Bounds and program constants                                            *)

\* The chunk sizes of the programs are divided by ChunkScale, so that a
\* work list of a few items spans several chunks.
ChunkScale == 8

FRAMER_BATCH_SIZE == 32
COMBINER_BATCH_SIZE == 12
SPLITTER_BATCH_SIZE == 16

Stages == {"framer", "combiner", "splitter"}

NoLocale == "--"
NoDevice == "--"

Min(a, b) == IF a < b THEN a ELSE b
Max(a, b) == IF a > b THEN a ELSE b

-----------------------------------------------------------------------------
(* Paths                                                                   *)

Seg(s) == <<s>>

ScreenshotsWord == "screenshots"

\* path.dirname / path.basename of an absolute, normalised path
Dirname(p) == IF Len(p) = 0 THEN p ELSE SubSeq(p, 1, Len(p) - 1)
Basename(p) == IF Len(p) = 0 THEN <<>> ELSE p[Len(p)]

\* Does the segment hold the word 'screenshots'?
HasWord(seg) == \E t \in 1..Len(seg) : seg[t] = ScreenshotsWord

\* The place of the first 'screenshots' in the path: <<segment, token>>,
\* or <<0, 0>> when indexOf gives -1.
IndexOfScreenshots(p) ==
    IF \E s \in 1..Len(p) : HasWord(p[s])
    THEN LET s == CHOOSE s \in 1..Len(p) :
                     HasWord(p[s]) /\ \A r \in 1..(s - 1) : ~HasWord(p[r])
             t == CHOOSE t \in 1..Len(p[s]) :
                     p[s][t] = ScreenshotsWord
                     /\ \A r \in 1..(t - 1) : p[s][r] # ScreenshotsWord
         IN <<s, t>>
    ELSE <<0, 0>>

\* The checkout directory names the model draws from; the second is the
\* repository's own name, app-store-screenshots.
RepoDirs == { <<"repo">>, <<"app-store-", "screenshots">> }

\* __dirname of each program
FramerDirname(repo) == << repo, Seg("01_input_framed") >>
CombinerDirname(repo) == << repo, Seg("02_input_combined") >>
SplitterDirname(repo) == << repo, Seg("03_splitter") >>

FramedWord == <<"framed_", "screenshots">>

\* path.resolve(__dirname, '../00_input/screenshots')
ScreenshotsDir(repo) == << repo, Seg("00_input"), Seg(ScreenshotsWord) >>

\* framer.ts generateOutputPath(inputPath)
FramerOutputPath(repo, inputPath) ==
    LET at == IndexOfScreenshots(inputPath) IN
    IF at[1] # 0
    THEN LET seg == inputPath[at[1]]
             rest == SubSeq(seg, at[2] + 1, Len(seg))
             relativePath == (IF rest = <<>> THEN <<>> ELSE <<rest>>)
                             \o SubSeq(inputPath, at[1] + 1, Len(inputPath))
             outputPath == FramerDirname(repo) \o <<FramedWord>> \o relativePath
             outputDir == Dirname(outputPath)
         IN outputDir \o << Seg("framed.png") >>
    ELSE LET inputDir == Dirname(inputPath)
             outputDir == FramerDirname(repo) \o <<FramedWord>> \o <<Basename(inputDir)>>
         IN outputDir \o << Seg("framed.png") >>

\* combiner.ts generateOutputPath(framedScreenshotsPath, deviceType, locale)
CombinerOutputPath(repo, deviceType, locale) ==
    CombinerDirname(repo)
      \o << <<"combined_", "screenshots">>, Seg(deviceType), Seg(locale), Seg("combined.png") >>

\* splitter.ts DEFAULT_DEVICE_CONFIGS; a name is a token sequence so that
\* name.toLowerCase().includes('iphone') is a membership test.
DEFAULT_DEVICE_CONFIGS ==
    << [name |-> <<"iphone", " 6.5 inch">>, width |-> 1242, height |-> 2688,
        outputPath |-> "iphone 6.5 inch (1242x2688)"],
       [name |-> <<"iphone", " 6.9 inch">>, width |-> 1320, height |-> 2868,
        outputPath |-> "iphone 6.9 inch (1320x2868)"],
       [name |-> <<"ipad", " 13 inch">>, width |-> 2752, height |-> 2064,
        outputPath |-> "ipad 13 inch (2752x2064)"] >>

Includes(name, word) == \E t \in 1..Len(name) : name[t] = word

\* splitScreenshots without the device filter
FilteredConfigsAll(deviceConfigs, deviceType) == deviceConfigs

\* splitScreenshots: filteredConfigs
FilteredConfigs(deviceConfigs, deviceType) ==
    IF deviceType = "iphone"
    THEN SelectSeq(deviceConfigs, LAMBDA c : Includes(c.name, "iphone"))
    ELSE IF deviceType = "ipad"
    THEN SelectSeq(deviceConfigs, LAMBDA c : Includes(c.name, "ipad"))
    ELSE deviceConfigs

\* path.resolve(__dirname, '../output')
OutputBasePath(repo) == << repo, Seg("output") >>

SlotFile(n) ==
    CASE n = 1 -> "slot_1.png" [] n = 2 -> "slot_2.png"
      [] n = 3 -> "slot_3.png" [] OTHER -> "slot_4.png"

\* processDeviceConfig: outputDir and the path of slot n
SplitterOutputDir(repo, config, locale) ==
    OutputBasePath(repo) \o << Seg(config.outputPath), Seg(locale) >>

SplitterSlotPath(repo, config, locale, n) ==
    SplitterOutputDir(repo, config, locale) \o << Seg(SlotFile(n)) >>

-----------------------------------------------------------------------------
(* JavaScript numbers.  The programs compute with IEEE 754 doubles; where a *)
(* quotient is rounded before it is used again, the model computes the     *)
(* double.  A positive double is [hi, l1, l2, l3, e]: its 53 significand   *)
(* bits as an 8 bit limb hi (128..255) and three 15 bit limbs, of value     *)
(* (hi * 2^45 + l1 * 2^30 + l2 * 2^15 + l3) * 2^e.                          *)

Limb == 2^15

\* The number of binary digits of n, for 1 <= n < 2^30
BitLength(n) == CHOOSE k \in 1..30 : 2^(k - 1) <= n /\ n < 2^k

\* significand + 1 (round up), renormalised when it reaches 2^53
DoubleSucc(x) ==
    LET l3 == x.l3 + 1
        l2 == x.l2 + (IF l3 = Limb THEN 1 ELSE 0)
        l1 == x.l1 + (IF l2 = Limb THEN 1 ELSE 0)
        hi == x.hi + (IF l1 = Limb THEN 1 ELSE 0)
    IN IF hi = 256
       THEN [hi |-> 128, l1 |-> 0, l2 |-> 0, l3 |-> 0, e |-> x.e + 1]
       ELSE [hi |-> hi, l1 |-> l1 % Limb, l2 |-> l2 % Limb, l3 |-> l3 % Limb, e |-> x.e]

\* Round to nearest, ties to even: x is the truncated significand, and the
\* dropped part is above, or exactly at, half a unit in the last place
DoubleRound(x, aboveHalf, atHalf) ==
    IF aboveHalf \/ (atHalf /\ x.l3 % 2 = 1) THEN DoubleSucc(x) ELSE x

\* The double a / b, for integers 0 < a < 2^14, 0 < b < 2^14
DoubleDiv(a, b) ==
    LET s == IF a >= b THEN 0
             ELSE CHOOSE k \in 1..15 : a * 2^k >= b /\ a * 2^(k - 1) < b
        t == IF a < b THEN 0
             ELSE CHOOSE k \in 0..15 : b * 2^k <= a /\ a < b * 2^(k + 1)
        aa == a * 2^s
        bb == b * 2^t
        hi == (aa * 128) \div bb
        r0 == (aa * 128) % bb
        l1 == (r0 * Limb) \div bb
        r1 == (r0 * Limb) % bb
        l2 == (r1 * Limb) \div bb
        r2 == (r1 * Limb) % bb
        l3 == (r2 * Limb) \div bb
        r3 == (r2 * Limb) % bb
    IN DoubleRound([hi |-> hi, l1 |-> l1, l2 |-> l2, l3 |-> l3, e |-> t - s - 52],
                   2 * r3 > bb, 2 * r3 = bb)

\* The double n * x, for an integer 1 <= n < 2^14 and a double x
DoubleMulInt(n, x) ==
    LET p3 == n * x.l3
        p2 == n * x.l2 + (p3 \div Limb)
        p1 == n * x.l1 + (p2 \div Limb)
        top == n * x.hi + (p1 \div Limb)
        d1 == p1 % Limb
        d2 == p2 % Limb
        d3 == p3 % Limb
        sh == BitLength(top) - 8
        unit == 2^sh
        v1 == (top % unit) * Limb + d1
        v2 == (v1 % unit) * Limb + d2
        v3 == (v2 % unit) * Limb + d3
        rem == v3 % unit
        kept == [hi |-> top \div unit, l1 |-> v1 \div unit, l2 |-> v2 \div unit,
                 l3 |-> v3 \div unit, e |-> x.e + sh]
    IN IF sh = 0 THEN kept
       ELSE DoubleRound(kept, 2 * rem > unit, 2 * rem = unit)

\* Bit j of the significand (bit 0 is the last one)
DoubleBit(x, j) ==
    IF j >= 45 THEN (x.hi \div 2^(j - 45)) % 2
    ELSE IF j >= 30 THEN (x.l1 \div 2^(j - 30)) % 2
    ELSE IF j >= 15 THEN (x.l2 \div 2^(j - 15)) % 2
    ELSE (x.l3 \div 2^j) % 2

\* Math.floor(x), for a double 0 < x < 2^30
DoubleFloor(x) ==
    LET k == 0 - x.e
    IN IF k >= 53 THEN 0
       ELSE IF k >= 45 THEN x.hi \div 2^(k - 45)
       ELSE IF k >= 30 THEN x.hi * 2^(45 - k) + (x.l1 \div 2^(k - 30))
       ELSE x.hi * 2^(45 - k) + x.l1 * 2^(30 - k) + (x.l2 \div 2^(k - 15))

\* Math.round(x) of a double 0 < x < 2^30 that is not an integer beyond
\* 2^23: the nearest integer, halves upwards
MathRound(x) ==
    LET k == 0 - x.e
    IN IF k > 53 THEN 0
       ELSE IF k <= 0 THEN DoubleFloor(x)
       ELSE DoubleFloor(x) + DoubleBit(x, k - 1)

\* Is the double x > 0 an integer?
DoubleIsInteger(x) ==
    LET k == 0 - x.e
    IN IF k <= 0 THEN TRUE
       ELSE IF k >= 53 THEN FALSE
       ELSE IF k <= 15 THEN x.l3 % 2^k = 0
       ELSE IF k <= 30 THEN x.l3 = 0 /\ x.l2 % 2^(k - 15) = 0
       ELSE IF k <= 45 THEN x.l3 = 0 /\ x.l2 = 0 /\ x.l1 % 2^(k - 30) = 0
       ELSE x.l3 = 0 /\ x.l2 = 0 /\ x.l1 = 0 /\ x.hi % 2^(k - 45) = 0

\* Math.ceil(x), for a double 0 < x < 2^30
DoubleCeil(x) == DoubleFloor(x) + (IF DoubleIsInteger(x) THEN 0 ELSE 1)

\* The double x + n, for a double 1 <= x < 2^14 and an integer 0 <= n < 2^10
DoubleAddInt(x, n) ==
    LET k == 0 - x.e
        s1 == x.l1 + (IF k < 45 THEN n * 2^(k - 30) ELSE 0)
        top == x.hi + (IF k >= 45 THEN n * 2^(k - 45) ELSE 0) + (s1 \div Limb)
        d1 == s1 % Limb
        sh == BitLength(top) - 8
        unit == 2^sh
        v1 == (top % unit) * Limb + d1
        v2 == (v1 % unit) * Limb + x.l2
        v3 == (v2 % unit) * Limb + x.l3
        rem == v3 % unit
        kept == [hi |-> top \div unit, l1 |-> v1 \div unit, l2 |-> v2 \div unit,
                 l3 |-> v3 \div unit, e |-> x.e + sh]
    IN IF sh = 0 THEN kept
       ELSE DoubleRound(kept, 2 * rem > unit, 2 * rem = unit)

\* Math.round(v / 2) for an integer v: halves go upwards, also below zero
MathRoundHalves(v) == (v + 1) \div 2

\* round(num / den) in exact arithmetic, halves upwards
RoundDiv(num, den) == (2 * num + den) \div (2 * den)

-----------------------------------------------------------------------------
(* The batch driver: main() of framer.ts, combiner.ts and splitter.ts       *)

\* The PNG files findPngFiles may find, relative to 00_input/screenshots:
\* the <device>/<locale>/<slot>/<file>.png layout the programs' help texts
\* name, and the README's <device>/<locale>/slot_N.png layout.
FileUniverse ==
    << << Seg("iphone"), Seg("en"), Seg("slot_1"), Seg("a.png") >>,
       << Seg("iphone"), Seg("en"), Seg("slot_2"), Seg("a.png") >>,
       << Seg("ipad"), Seg("en"), Seg("slot_1.png") >>,
       << Seg("ipad"), Seg("en"), Seg("slot_2.png") >>,
       << Seg("iphone"), Seg("fr"), Seg("slot_1"), Seg("a.png") >> >>

\* The locales 00_input/translations may hold, sorted as getAvailableLocales
\* sorts them.
LocaleUniverse == << "de", "en", "fr" >>

TargetLocales == { NoLocale, "fr", "zz" }

RECURSIVE SubseqFrom(_, _, _)
SubseqFrom(seq, S, k) ==
    IF k > Len(seq) THEN <<>>
    ELSE (IF k \in S THEN <<seq[k]>> ELSE <<>>) \o SubseqFrom(seq, S, k + 1)

\* The subsequence of seq at the indices S, in seq's order
SubseqBy(seq, S) == SubseqFrom(seq, S, 1)

\* findPngFiles(screenshotsDir): full paths of the files present
FoundFiles(repo, S) ==
    LET rel == SubseqBy(FileUniverse, S)
    IN [k \in 1..Len(rel) |-> ScreenshotsDir(repo) \o rel[k]]

\* main (framer): pathParts[1] of path.relative(screenshotsDir, file)
FileLocale(repo, file) ==
    LET relativePath == SubSeq(file, Len(ScreenshotsDir(repo)) + 1, Len(file))
    IN IF Len(relativePath) >= 2 THEN relativePath[2][1] ELSE "unknown"

\* main (framer): filteredFiles
FilteredFiles(repo, pngFiles, locale) ==
    IF locale = NoLocale THEN pngFiles
    ELSE SelectSeq(pngFiles, LAMBDA f : FileLocale(repo, f) = locale)

BatchSize(st) ==
    CASE st = "framer" -> FRAMER_BATCH_SIZE \div ChunkScale
      [] st = "combiner" -> COMBINER_BATCH_SIZE \div ChunkScale
      [] OTHER -> SPLITTER_BATCH_SIZE \div ChunkScale

\* The whole rest of the work list dispatched at once
BatchAll(st, from, n) == (from + 1)..n

\* work.slice(i, i + BATCH_SIZE), as work indices (1-based)
Batch(st, from, n) == (from + 1)..Min(from + BatchSize(st), n)

\* The chunk an index belongs to
ChunkOf(st, k) == (k - 1) \div BatchSize(st)

\* await Promise.all(batchPromises): every promise of the chunk has settled
PromiseAllSkipsLast(batch, res) ==
    \A k \in batch : k = (CHOOSE m \in batch : \A o \in batch : o <= m) \/ res[k] # "none"

PromiseAll(batch, res) == \A k \in batch : res[k] # "none"

\* The item closure's try/catch: what the promise resolves to
ItemResultSwallows(hasThrown) == "ok"

ItemResult(hasThrown) == IF hasThrown THEN "failed" ELSE "ok"

\* batchResults.forEach: the increments of processed and failed
CountSuccess(batch, res) == Cardinality({k \in batch : res[k] = "ok"})
CountFailed(batch, res) == Cardinality({k \in batch : res[k] # "ok"})

\* What the process exits with after the loop: combiner and splitter call
\* process.exit(1) when failed > 0, the framer only logs the count.
ExitStatus(st, nFailed) ==
    IF st = "framer" THEN 0
    ELSE IF nFailed > 0 THEN 1 ELSE 0

\* main (framer): the deviceType an input path is framed with
FramerDeviceType(inputPath) ==
    IF Basename(Dirname(Dirname(Dirname(inputPath)))) = Seg("ipad") THEN "ipad" ELSE "iphone"

\* The device type the stage function runs with
DeviceTypeOf(dev) == IF dev = NoDevice THEN "iphone" ELSE dev

\* The files one work item writes
OutputPaths(st, repo, dev, item) ==
    CASE st = "framer" -> { FramerOutputPath(repo, item) }
      [] st = "combiner" -> { CombinerOutputPath(repo, DeviceTypeOf(dev), item[1][1]) }
      [] OTHER ->
           LET configs == FilteredConfigs(DEFAULT_DEVICE_CONFIGS, DeviceTypeOf(dev))
           IN { SplitterSlotPath(repo, configs[c], item[1][1], n) :
                    c \in 1..Len(configs), n \in 1..4 }

\* A locale as a work item
LocaleItem(l) == << Seg(l) >>

LocaleItems(ls) == [k \in 1..Len(ls) |-> LocaleItem(ls[k])]

InitBatch ==
    /\ stage \in Stages
    /\ repoDir \in RepoDirs
    /\ \/ /\ stage = "framer"
          /\ targetDevice = NoDevice
          /\ targetLocale \in TargetLocales
          /\ \E S \in SUBSET (1..Len(FileUniverse)) : found = FoundFiles(repoDir, S)
       \/ /\ stage = "combiner"
          /\ targetDevice \in {NoDevice, "ipad"}
          /\ targetLocale = NoLocale
          /\ \E S \in SUBSET (1..Len(LocaleUniverse)) :
                found = LocaleItems(SubseqBy(LocaleUniverse, S))
       \/ /\ stage = "splitter"
          /\ targetDevice \in {NoDevice, "ipad"}
          /\ targetLocale \in TargetLocales
          /\ \E S \in SUBSET (1..Len(LocaleUniverse)) :
                found = LocaleItems(SubseqBy(LocaleUniverse, S))
    /\ work = <<>>
    /\ i = 0
    /\ result = <<>>
    /\ attempts = <<>>
    /\ processed = 0
    /\ failed = 0
    /\ threw = {}
    /\ pc = "scan"
    /\ exitCode = -1
    /\ IdleSplitter /\ IdleFramer /\ IdleCombiner /\ IdleRerun

StartLoop(list) ==
    /\ work' = list
    /\ result' = [k \in 1..Len(list) |-> "none"]
    /\ attempts' = [k \in 1..Len(list) |-> 0]
    /\ pc' = "loop"
    /\ UNCHANGED <<stage, repoDir, targetLocale, targetDevice, found, i, processed,
                   failed, threw, exitCode>>
    /\ UNCHANGED <<splitterVars, framerVars, combinerVars, rerunVars>>

Exit(code) ==
    /\ pc' = "exited"
    /\ exitCode' = code
    /\ UNCHANGED <<stage, repoDir, targetLocale, targetDevice, found, work, i, result,
                   attempts, processed, failed, threw>>
    /\ UNCHANGED <<splitterVars, framerVars, combinerVars, rerunVars>>

\* framer main: no PNG files, or none for the locale: process.exit(0)
FramerScanEmpty ==
    /\ pc = "scan" /\ stage = "framer"
    /\ FilteredFiles(repoDir, found, targetLocale) = <<>>
    /\ Exit(0)

FramerScan ==
    /\ pc = "scan" /\ stage = "framer"
    /\ FilteredFiles(repoDir, found, targetLocale) # <<>>
    /\ StartLoop(FilteredFiles(repoDir, found, targetLocale))

\* combiner main: locales = await getAvailableLocales()
CombinerScan ==
    /\ pc = "scan" /\ stage = "combiner"
    /\ StartLoop(found)

\* splitter main: the requested locale is not among the available ones
SplitterScanUnknownLocale ==
    /\ pc = "scan" /\ stage = "splitter"
    /\ targetLocale # NoLocale
    /\ \A k \in 1..Len(found) : found[k] # LocaleItem(targetLocale)
    /\ Exit(1)

SplitterScan ==
    /\ pc = "scan" /\ stage = "splitter"
    /\ targetLocale # NoLocale => \E k \in 1..Len(found) : found[k] = LocaleItem(targetLocale)
    /\ StartLoop(IF targetLocale # NoLocale THEN << LocaleItem(targetLocale) >> ELSE found)

\* The items of the current chunk that have started and not settled
InFlight == IF pc = "await" THEN {k \in Batch(stage, i, Len(work)) : result[k] = "none"} ELSE {}

\* batch.map(async ...): every closure of the chunk runs to its first await
DispatchChunk ==
    /\ pc = "loop"
    /\ i < Len(work)
    /\ attempts' = [k \in 1..Len(work) |->
                       IF k \in Batch(stage, i, Len(work)) THEN attempts[k] + 1 ELSE attempts[k]]
    /\ pc' = "await"
    /\ UNCHANGED <<stage, repoDir, targetLocale, targetDevice, found, work, i, result,
                   processed, failed, threw, exitCode>>
    /\ UNCHANGED <<splitterVars, framerVars, combinerVars, rerunVars>>

\* The stage function of item k returns: return { success: true, ... }
ItemSucceeds(k) ==
    /\ k \in InFlight
    /\ result' = [result EXCEPT ![k] = ItemResult(FALSE)]
    /\ UNCHANGED <<stage, repoDir, targetLocale, targetDevice, found, work, i, attempts,
                   processed, failed, threw, pc, exitCode>>
    /\ UNCHANGED <<splitterVars, framerVars, combinerVars, rerunVars>>

\* The stage function of item k throws: the closure's catch returns
\* { success: false, ... }
ItemFails(k) ==
    /\ k \in InFlight
    /\ threw' = threw \cup {k}
    /\ result' = [result EXCEPT ![k] = ItemResult(TRUE)]
    /\ UNCHANGED <<stage, repoDir, targetLocale, targetDevice, found, work, i, attempts,
                   processed, failed, pc, exitCode>>
    /\ UNCHANGED <<splitterVars, framerVars, combinerVars, rerunVars>>

\* Promise.all resolves; batchResults.forEach counts; i += BATCH_SIZE
ChunkSettled ==
    /\ pc = "await"
    /\ PromiseAll(Batch(stage, i, Len(work)), result)
    /\ processed' = processed + CountSuccess(Batch(stage, i, Len(work)), result)
    /\ failed' = failed + CountFailed(Batch(stage, i, Len(work)), result)
    /\ i' = i + BatchSize(stage)
    /\ pc' = "loop"
    /\ UNCHANGED <<stage, repoDir, targetLocale, targetDevice, found, work, result,
                   attempts, threw, exitCode>>
    /\ UNCHANGED <<splitterVars, framerVars, combinerVars, rerunVars>>

\* The loop ends: the summary is logged and the process ends
LoopEnd ==
    /\ pc = "loop"
    /\ i >= Len(work)
    /\ Exit(ExitStatus(stage, failed))

NextBatch ==
    \/ FramerScanEmpty
    \/ FramerScan
    \/ CombinerScan
    \/ SplitterScanUnknownLocale
    \/ SplitterScan
    \/ DispatchChunk
    \/ \E k \in 1..Len(work) : ItemSucceeds(k)
    \/ \E k \in 1..Len(work) : ItemFails(k)
    \/ ChunkSettled
    \/ LoopEnd

Spec == InitBatch /\ [][NextBatch]_vars

-----------------------------------------------------------------------------
(* Claims about the batch driver, checked under Spec                       *)

Settled(k) == result[k] # "none"

\* C1: in every stage's batch driver, whenever at least one work item
\* failed the process exits with a nonzero status, and it exits only after
\* every chunk of the work list has been processed.
C1_FailedRunExitsNonzero ==
    (pc = "exited" /\ threw # {}) =>
        /\ exitCode # 0
        /\ \A k \in 1..Len(work) : Settled(k)

\* C2: no item of chunk N+1 is started until every item of chunk N has
\* settled, whatever the order in which the items of a chunk complete.
C2_ChunkBarrier ==
    \A j, k \in 1..Len(work) :
        (ChunkOf(stage, j) < ChunkOf(stage, k) /\ attempts[k] > 0) => Settled(j)

\* C2 witness: an item of a later chunk is in flight after an item of an
\* earlier chunk failed and another one succeeded.
C2_Witness ==
    \E j, k \in 1..Len(work) :
        /\ ChunkOf(stage, j) < ChunkOf(stage, k)
        /\ k \in InFlight
        /\ j \in threw
        /\ \E m \in 1..Len(work) : result[m] = "ok"

\* C3: a failing item never keeps another item from being attempted: every
\* item is attempted at most once while the loop runs and exactly once by
\* the time it ends, and then processed + failed is the number of items and
\* failed is the number of items that threw.
C3_EveryItemAttemptedOnce ==
    /\ \A k \in 1..Len(work) : attempts[k] <= 1
    /\ pc = "exited" =>
          /\ \A k \in 1..Len(work) : attempts[k] = 1 /\ Settled(k)
          /\ processed + failed = Len(work)
          /\ failed = Cardinality(threw)

\* C3 witness: the run has ended; an item threw, and items after it, in its
\* own chunk and in a later chunk, were attempted and succeeded.
C3_Witness ==
    /\ pc = "exited"
    /\ \E j \in threw :
          /\ \E k \in 1..Len(work) :
                k > j /\ ChunkOf(stage, k) = ChunkOf(stage, j) /\ result[k] = "ok"
          /\ \E k \in 1..Len(work) :
                ChunkOf(stage, k) > ChunkOf(stage, j) /\ result[k] = "ok"

\* C4: during one fan-out no two items in flight write the same output
\* path: distinct PNG files of a Framer run map to distinct framed paths,
\* and distinct locales of a Combiner or Splitter run to distinct paths.
C4_InFlightOutputsDistinct ==
    \A j, k \in InFlight :
        j # k => OutputPaths(stage, repoDir, targetDevice, work[j])
                    \cap OutputPaths(stage, repoDir, targetDevice, work[k]) = {}

\* The chunk size the source gives a stage
SourceBatchSize(st) ==
    CASE st = "framer" -> FRAMER_BATCH_SIZE
      [] st = "combiner" -> COMBINER_BATCH_SIZE
      [] OTHER -> SPLITTER_BATCH_SIZE

\* C22: at any moment the number of batch items in flight (started and not
\* yet settled) is at most the stage's fixed chunk size (Framer 32,
\* Combiner 12, Splitter 16), for any work-list length, and the Framer's
\* chunk size is larger than the Combiner's and the Splitter's.
C22_InFlightAtMostChunkSize ==
    LET started == {k \in 1..Len(work) : attempts[k] > 0 /\ ~Settled(k)}
    IN /\ Cardinality(started) <= BatchSize(stage)
       /\ started = InFlight
       /\ BatchSize(stage) * ChunkScale <= SourceBatchSize(stage)
       /\ FRAMER_BATCH_SIZE = 32 /\ COMBINER_BATCH_SIZE = 12 /\ SPLITTER_BATCH_SIZE = 16
       /\ BatchSize("framer") > BatchSize("combiner")
       /\ BatchSize("framer") > BatchSize("splitter")

\* C22 witness: a work list longer than a chunk has a full chunk in flight
\* while items remain undispatched.
C22_Witness ==
    /\ pc = "await"
    /\ Len(work) > BatchSize(stage)
    /\ Cardinality(InFlight) = BatchSize(stage)
    /\ \E k \in 1..Len(work) : attempts[k] = 0

-----------------------------------------------------------------------------
(* The Splitter: splitScreenshots and processDeviceConfig                  *)

\* The sizes of combined images the model draws from (0: no metadata)
CombinedWidths == {0, 999, 1000, 3840, 5000, 5616}
CombinedHeights == {0, 999, 1000, 1001, 2868, 9000}

SplitLocale == "en"

\* The smallest width and height splitScreenshots accepts
MinDimension == 1000

\* if (!metadata.width || !metadata.height)
MissingMetadata(w, h) == w = 0 \/ h = 0

\* if (metadata.width < 1000 || metadata.height < 1000)
TooSmallBoth(w, h) == w < MinDimension /\ h < MinDimension

TooSmall(w, h) == w < MinDimension \/ h < MinDimension

\* The error splitScreenshots throws before it processes a config, or "none"
SplitError(exists, w, h) ==
    IF ~exists THEN "Combined image not found"
    ELSE IF MissingMetadata(w, h) THEN "Invalid combined image"
    ELSE IF TooSmall(w, h) THEN "Combined image too small"
    ELSE "none"

\* const resizedWidth = targetWidth * 4
ResizedWidth(targetWidth, w) == targetWidth * 4

\* const aspectRatio = metadata.height / metadata.width;
\* const resizedHeight = Math.round(resizedWidth * aspectRatio)
ResizedHeight(resizedWidth, w, h) == MathRound(DoubleMulInt(resizedWidth, DoubleDiv(h, w)))

\* if (resizedHeight > targetHeight): the extract region of the crop
Crops(resizedHeight, targetHeight) == resizedHeight > targetHeight

CropRegion(resizedWidth, targetHeight) ==
    [left |-> 0, top |-> 0, width |-> resizedWidth, height |-> targetHeight]

\* The extract region of slot i (0..3) within the final image
SlotRegionOverlapping(k, quarterWidth, finalHeight) ==
    [left |-> k * (quarterWidth - 1), top |-> 0, width |-> quarterWidth, height |-> finalHeight]

SlotRegion(k, quarterWidth, finalHeight) ==
    [left |-> k * quarterWidth, top |-> 0, width |-> quarterWidth, height |-> finalHeight]

\* processDeviceConfig: the geometry of one device config
ConfigGeometry(config, w, h) ==
    LET resizedWidth == ResizedWidth(config.width, w)
        resizedHeight == ResizedHeight(resizedWidth, w, h)
        cropped == Crops(resizedHeight, config.height)
    IN [config |-> config.outputPath,
        targetWidth |-> config.width,
        targetHeight |-> config.height,
        resizedWidth |-> resizedWidth,
        resizedHeight |-> resizedHeight,
        cropped |-> cropped,
        crop |-> IF cropped THEN CropRegion(resizedWidth, config.height)
                 ELSE [left |-> 0, top |-> 0, width |-> resizedWidth, height |-> resizedHeight],
        finalWidth |-> resizedWidth,
        finalHeight |-> IF cropped THEN config.height ELSE resizedHeight]

\* processDeviceConfig: the four files of one device config; a file holds
\* the region it was extracted from, so region.width x region.height pixels
ConfigFiles(repo, config, locale, geom) ==
    { [path |-> SplitterSlotPath(repo, config, locale, k + 1),
       config |-> config.outputPath,
       slot |-> k + 1,
       region |-> SlotRegion(k, config.width, geom.finalHeight)] : k \in 0..3 }

SFiltered == FilteredConfigs(DEFAULT_DEVICE_CONFIGS, sDeviceType)

InitSplitter ==
    /\ sDeviceType \in {"iphone", "ipad"}
    /\ sExists \in BOOLEAN
    /\ sWidth \in CombinedWidths
    /\ sHeight \in CombinedHeights
    /\ sPc = "start"
    /\ sNext = 0
    /\ sDirs = {}
    /\ sFiles = {}
    /\ sGeom = <<>>
    /\ IdleBatch /\ IdleFramer /\ IdleCombiner /\ IdleRerun

\* splitScreenshots throws: no combined image, no metadata, or too small
SplitRejects ==
    /\ sPc = "start"
    /\ SplitError(sExists, sWidth, sHeight) # "none"
    /\ sPc' = "threw"
    /\ UNCHANGED <<sDeviceType, sExists, sWidth, sHeight, sNext, sDirs, sFiles, sGeom>>
    /\ UNCHANGED <<batchVars, framerVars, combinerVars, rerunVars>>

\* The combined image passes the checks
SplitAccepts ==
    /\ sPc = "start"
    /\ SplitError(sExists, sWidth, sHeight) = "none"
    /\ sPc' = "configs"
    /\ sNext' = 1
    /\ UNCHANGED <<sDeviceType, sExists, sWidth, sHeight, sDirs, sFiles, sGeom>>
    /\ UNCHANGED <<batchVars, framerVars, combinerVars, rerunVars>>

\* await processDeviceConfig(...) for the next filtered config
ProcessDeviceConfig ==
    /\ sPc = "configs"
    /\ sNext <= Len(SFiltered)
    /\ LET config == SFiltered[sNext]
           geom == ConfigGeometry(config, sWidth, sHeight)
       IN /\ sGeom' = Append(sGeom, geom)
          /\ sDirs' = sDirs \cup { SplitterOutputDir(<<"repo">>, config, SplitLocale) }
          /\ sFiles' = { f \in sFiles : f.config # config.outputPath }
                          \cup ConfigFiles(<<"repo">>, config, SplitLocale, geom)
    /\ sNext' = sNext + 1
    /\ UNCHANGED <<sDeviceType, sExists, sWidth, sHeight, sPc>>
    /\ UNCHANGED <<batchVars, framerVars, combinerVars, rerunVars>>

\* The loop over filteredConfigs ends: splitScreenshots returns
SplitDone ==
    /\ sPc = "configs"
    /\ sNext > Len(SFiltered)
    /\ sPc' = "done"
    /\ UNCHANGED <<sDeviceType, sExists, sWidth, sHeight, sNext, sDirs, sFiles, sGeom>>
    /\ UNCHANGED <<batchVars, framerVars, combinerVars, rerunVars>>

NextSplitter ==
    \/ SplitRejects
    \/ SplitAccepts
    \/ ProcessDeviceConfig
    \/ SplitDone

SpecSplitter == InitSplitter /\ [][NextSplitter]_vars

-----------------------------------------------------------------------------
(* Claims about the Splitter, checked under SpecSplitter                   *)

ConfigOf(label) ==
    CHOOSE c \in {DEFAULT_DEVICE_CONFIGS[k] : k \in 1..Len(DEFAULT_DEVICE_CONFIGS)} :
        c.outputPath = label

\* C6: for every accepted combined image and every processed device
\* config, each of the 4 slot files written has exactly the target pixel
\* dimensions, width = targetWidth and height = targetHeight.
C6_SlotsHaveTargetSize ==
    \A f \in sFiles :
        /\ f.region.width = ConfigOf(f.config).width
        /\ f.region.height = ConfigOf(f.config).height

\* C7: the Splitter resizes to width exactly 4T and cuts 4 strips, strip i
\* (written as slot_{i+1}) covering the columns [i*T, (i+1)*T): in order,
\* without overlap or gap, of total width 4T and inside the resized image.
C7_StripsTileResizedWidth ==
    \A g \in {sGeom[k] : k \in 1..Len(sGeom)} :
        LET T == g.targetWidth
            Fs == {f \in sFiles : f.config = g.config}
        IN /\ g.resizedWidth = 4 * T
           /\ g.finalWidth = 4 * T
           /\ Cardinality(Fs) = 4
           /\ \A n \in 1..4 : \E f \in Fs :
                 /\ f.slot = n
                 /\ f.region.left = (n - 1) * T
                 /\ f.region.left + f.region.width = n * T
                 /\ f.region.left + f.region.width <= g.resizedWidth
           /\ \A f1, f2 \in Fs :
                 f1.slot < f2.slot => f1.region.left + f1.region.width <= f2.region.left

\* C7 witness: a combined image whose width is not 4T was split for both
\* iPhone configs.
C7_Witness ==
    /\ sPc = "done"
    /\ Len(sGeom) = 2
    /\ sWidth = 5000
    /\ \E f \in sFiles : f.slot = 4 /\ f.region.left = 3 * 1320

\* C8: resizedHeight = round(4 * targetWidth * originalHeight /
\* originalWidth); a crop occurs iff resizedHeight > targetHeight and then
\* keeps rows [0, targetHeight) from the top-left origin; otherwise the
\* final height stays resizedHeight.  5000x9000 with target (1242, 2688)
\* gives 4968x8942 cropped to 4968x2688.
C8_ResizeThenCropFromBottom ==
    \A g \in {sGeom[k] : k \in 1..Len(sGeom)} :
        /\ g.resizedHeight = RoundDiv(4 * g.targetWidth * sHeight, sWidth)
        /\ g.cropped <=> g.resizedHeight > g.targetHeight
        /\ g.cropped =>
              /\ g.crop.top = 0 /\ g.crop.left = 0
              /\ g.crop.height = g.targetHeight
              /\ g.finalHeight = g.targetHeight
        /\ ~g.cropped => g.finalHeight = g.resizedHeight
        /\ (sWidth = 5000 /\ sHeight = 9000 /\ g.targetWidth = 1242) =>
              /\ g.resizedWidth = 4968 /\ g.resizedHeight = 8942
              /\ g.finalWidth = 4968 /\ g.finalHeight = 2688

\* C9: splitScreenshots throws for every combined image whose width or
\* height is below 1000 (or missing), and then creates no output directory
\* and writes no slot file for any device config.
C9_SmallImageRejected ==
    (sPc \notin {"idle", "start"} /\ (sWidth < 1000 \/ sHeight < 1000)) =>
        /\ sPc = "threw"
        /\ sDirs = {}
        /\ sFiles = {}

\* C9 witness: an existing image wide enough but not tall enough was
\* rejected.
C9_Witness ==
    /\ sPc = "threw"
    /\ sExists
    /\ sWidth >= 1000
    /\ sHeight = 999

\* The labels of the device configs a device type is to be split into
ExpectedLabels(deviceType) ==
    IF deviceType = "iphone"
    THEN {"iphone 6.5 inch (1242x2688)", "iphone 6.9 inch (1320x2868)"}
    ELSE {"ipad 13 inch (2752x2064)"}

-----------------------------------------------------------------------------
(* The Framer: frameScreenshot, createDeviceBackground, createDeviceBezels *)

\* settings.ts defaultFrameSettings
DefaultEdgeMargin == 30
DefaultOffsetTop == 40
DefaultOffsetLeft == 40

Absent == [kind |-> "absent"]
Undefined == [kind |-> "undefined"]
Number(n) == [kind |-> "number", value |-> n]

defaultFrameSettings ==
    [edgeMargin |-> Number(DefaultEdgeMargin),
     screenshotOffset |-> [top |-> DefaultOffsetTop, left |-> DefaultOffsetLeft]]

\* The screenshot sizes and the settings overrides the model draws from
ScreenshotWidths == {1170, 1290, 2048}
ScreenshotHeights == {2532, 2796, 2732}
EdgeMarginOverrides == {Absent, Undefined, Number(0), Number(30), Number(45)}
OffsetOverrides ==
    {Absent, [kind |-> "given", top |-> 40, left |-> 40],
             [kind |-> "given", top |-> 60, left |-> 20]}

\* frameScreenshot: { ...defaultFrameSettings, ...settings }
MergeSettings(edgeMargin, offset) ==
    [edgeMargin |-> IF edgeMargin.kind = "absent" THEN defaultFrameSettings.edgeMargin
                    ELSE edgeMargin,
     screenshotOffset |-> IF offset.kind = "absent" THEN defaultFrameSettings.screenshotOffset
                          ELSE [top |-> offset.top, left |-> offset.left]]

\* typeof settings.edgeMargin === 'number'
IsNumber(v) == v.kind = "number"

\* createDeviceBackground: the canvas and the screen bed
CreateDeviceBackgroundOneMargin(screenshotWidth, screenshotHeight, settings) ==
    LET margin == IF IsNumber(settings.edgeMargin) THEN settings.edgeMargin.value
                  ELSE settings.screenshotOffset.left
    IN [frameWidth |-> screenshotWidth + margin,
        frameHeight |-> screenshotHeight + margin,
        screenX |-> margin,
        screenY |-> margin]

CreateDeviceBackground(screenshotWidth, screenshotHeight, settings) ==
    LET margin == IF IsNumber(settings.edgeMargin) THEN settings.edgeMargin.value
                  ELSE settings.screenshotOffset.left
    IN [frameWidth |-> screenshotWidth + (margin * 2),
        frameHeight |-> screenshotHeight + (margin * 2),
        screenX |-> margin,
        screenY |-> margin]

\* createDeviceBezels: the bezel layer, its punched-out screen rectangle
\* and whether it draws the home indicator
CreateDeviceBezels(screenshotWidth, screenshotHeight, deviceType, settings) ==
    LET margin == IF IsNumber(settings.edgeMargin) THEN settings.edgeMargin.value
                  ELSE settings.screenshotOffset.left
    IN [frameWidth |-> screenshotWidth + (margin * 2),
        frameHeight |-> screenshotHeight + (margin * 2),
        screenX |-> margin,
        screenY |-> margin,
        homeIndicator |-> (deviceType = "iphone")]

\* getScreenshotOffset(deviceType, width, height, isTop, settings)
GetScreenshotOffset(isTop, settings) ==
    IF IsNumber(settings.edgeMargin) THEN settings.edgeMargin.value
    ELSE IF isTop THEN settings.screenshotOffset.top ELSE settings.screenshotOffset.left

InitFramer ==
    /\ fWidth \in ScreenshotWidths
    /\ fHeight \in ScreenshotHeights
    /\ fDeviceType \in {"iphone", "ipad"}
    /\ fEdgeMargin \in EdgeMarginOverrides
    /\ fOffset \in OffsetOverrides
    /\ fPc = "start"
    /\ fFrame = <<>>
    /\ IdleBatch /\ IdleSplitter /\ IdleCombiner /\ IdleRerun

\* frameScreenshot(options): the layers it builds and composes; the output
\* image has the size of the background layer it composes onto
FrameScreenshot ==
    /\ fPc = "start"
    /\ LET frameSettings == MergeSettings(fEdgeMargin, fOffset)
           background == CreateDeviceBackground(fWidth, fHeight, frameSettings)
           bezels == CreateDeviceBezels(fWidth, fHeight, fDeviceType, frameSettings)
       IN fFrame' = [canvasWidth |-> background.frameWidth,
                     canvasHeight |-> background.frameHeight,
                     background |-> background,
                     bezels |-> bezels,
                     top |-> GetScreenshotOffset(TRUE, frameSettings),
                     left |-> GetScreenshotOffset(FALSE, frameSettings)]
    /\ fPc' = "done"
    /\ UNCHANGED <<fWidth, fHeight, fDeviceType, fEdgeMargin, fOffset>>
    /\ UNCHANGED <<batchVars, splitterVars, combinerVars, rerunVars>>

NextFramer == FrameScreenshot

SpecFramer == InitFramer /\ [][NextFramer]_vars

-----------------------------------------------------------------------------
(* Claims about the Framer, checked under SpecFramer                       *)

C26_ScreenshotOverCutout ==
    fPc = "done" =>
        /\ fFrame.left = fFrame.background.screenX
        /\ fFrame.top = fFrame.background.screenY
        /\ fFrame.left = fFrame.bezels.screenX
        /\ fFrame.top = fFrame.bezels.screenY
        /\ fFrame.canvasWidth = fWidth + 2 * fFrame.left
        /\ fFrame.canvasHeight = fHeight + 2 * fFrame.top

-----------------------------------------------------------------------------
(* The Combiner's titles: generateTitleSvg                                 *)
(* A string is a sequence of characters.                                   *)

LineBreak == "\n"

\* The longest text the model draws
MaxTextLen == 6

TextAlphabet == {"a", " ", "&", LineBreak}

Texts == UNION { [1..n -> TextAlphabet] : n \in 0..MaxTextLen }

\* The widths the title is laid out in, and its font sizes and shadow offsets
TitleWidths == {200, 330}
SvgFontSizes == {130}
SvgShadowOffsets == {-3, 1}

\* String.prototype.split(sep): the parts between the separators
SplitOn(str, sep) ==
    LET pos == {p \in 1..Len(str) : str[p] = sep}
        n == Cardinality(pos)
        Nth(j) == CHOOSE p \in pos : Cardinality({q \in pos : q <= p}) = j
    IN [j \in 1..(n + 1) |->
           SubSeq(str, IF j = 1 THEN 1 ELSE Nth(j - 1) + 1,
                       IF j = n + 1 THEN Len(str) ELSE Nth(j) - 1)]

\* Array.prototype.filter(Boolean) on strings: the non-empty ones
FilterBoolean(parts) == SelectSeq(parts, LAMBDA part : part # <<>>)

\* String.prototype.trim()
Trim(str) ==
    LET ink == {p \in 1..Len(str) : str[p] \notin {" ", LineBreak}}
    IN IF ink = {} THEN <<>>
       ELSE SubSeq(str, CHOOSE p \in ink : \A q \in ink : p <= q,
                        CHOOSE p \in ink : \A q \in ink : q <= p)

RECURSIVE JoinFrom(_, _, _)
JoinFrom(parts, sep, k) ==
    IF k = Len(parts) THEN parts[k]
    ELSE parts[k] \o sep \o JoinFrom(parts, sep, k + 1)

\* Array.prototype.join(sep)
Join(parts, sep) == IF parts = <<>> THEN <<>> ELSE JoinFrom(parts, sep, 1)

\* escapeXml: & becomes &amp; (and < and > their entities)
EscapeXml(value) ==
    Join([p \in 1..Len(value) |->
             IF value[p] = "&" THEN <<"&", "a", "m", "p", ";">> ELSE <<value[p]>>], <<>>)

\* maxCharsPerLine = Math.floor(width / (fontSize * 0.6)).  Where
\* fontSize * 0.6 is a whole double the quotient is computed as a double;
\* where 5 * width is no multiple of 3 * fontSize the quotient is further
\* from a whole number than any rounding, and its floor is that of
\* 5 * width / (3 * fontSize).  For the remaining widths the rounding of
\* the quotient decides and no value is given.
MaxCharsPerLine(width, fontSize) ==
    LET charWidth == DoubleMulInt(fontSize, DoubleDiv(3, 5))
    IN IF DoubleIsInteger(charWidth)
       THEN DoubleFloor(DoubleDiv(width, DoubleFloor(charWidth)))
       ELSE IF (5 * width) % (3 * fontSize) # 0
       THEN (5 * width) \div (3 * fontSize)
       ELSE CHOOSE n \in {} : TRUE

\* The for loop over words: the breakIndex it ends with (i counts from 0)
RECURSIVE BreakIndexFrom(_, _, _, _)
BreakIndexFrom(words, idx, currentLine, maxCharsPerLine) ==
    IF idx >= Len(words) THEN idx
    ELSE LET testLine == currentLine \o (IF currentLine # <<>> THEN <<" ">> ELSE <<>>)
                            \o words[idx + 1]
         IN IF Len(testLine) > maxCharsPerLine /\ currentLine # <<>> THEN idx
            ELSE BreakIndexFrom(words, idx + 1, testLine, maxCharsPerLine)

\* if (breakIndex > 0 && breakIndex < words.length) { line1 = ...; line2 = ... }
WrappedLinesDropsWord(escapedText, words, breakIndex) ==
    IF breakIndex > 0 /\ breakIndex < Len(words)
    THEN << Join(SubSeq(words, 1, breakIndex), <<" ">>),
            Join(SubSeq(words, breakIndex + 2, Len(words)), <<" ">>) >>
    ELSE << escapedText, <<>> >>

WrappedLines(escapedText, words, breakIndex) ==
    IF breakIndex > 0 /\ breakIndex < Len(words)
    THEN << Join(SubSeq(words, 1, breakIndex), <<" ">>),
            Join(SubSeq(words, breakIndex + 1, Len(words)), <<" ">>) >>
    ELSE << escapedText, <<>> >>

\* if (maxLines === 1) line2 = ''
ConstrainedLine2KeepsLine(line2, maxLines) == line2

ConstrainedLine2(line2, maxLines) == IF maxLines = 1 THEN <<>> ELSE line2

\* generateTitleSvg(text, fontSize, color, shadowColor, shadowOffset, width,
\* maxLines): the lines it renders and the svgHeight it returns
GenerateTitleSvg(text, fontSize, shadowOffset, width, maxLines) ==
    LET manualParts == FilterBoolean(SplitOn(text, LineBreak))
        maxCharsPerLine == MaxCharsPerLine(width, fontSize)
        escapedText == EscapeXml(text)
        words == SplitOn(escapedText, " ")
        lines == IF Len(manualParts) > 1
                 THEN << EscapeXml(Trim(manualParts[1])),
                         EscapeXml(Trim(Join(Tail(manualParts), <<" ">>))) >>
                 ELSE IF Len(escapedText) > maxCharsPerLine
                 THEN WrappedLines(escapedText, words,
                                   BreakIndexFrom(words, 0, <<>>, maxCharsPerLine))
                 ELSE << escapedText, <<>> >>
        line2 == ConstrainedLine2(lines[2], maxLines)
        lineHeight == DoubleMulInt(fontSize, DoubleDiv(6, 5))
        renderedLines == IF line2 # <<>> THEN 2 ELSE 1
        contentHeight == DoubleMulInt(renderedLines, lineHeight)
        pad == DoubleCeil(DoubleMulInt(fontSize, DoubleDiv(1, 5)))
                  + (IF shadowOffset < 0 THEN 0 - shadowOffset ELSE shadowOffset)
    IN [line1 |-> lines[1],
        line2 |-> line2,
        renderedLines |-> renderedLines,
        svgHeight |-> DoubleCeil(DoubleAddInt(contentHeight, pad * 2))]

-----------------------------------------------------------------------------
(* The Combiner: combineScreenshots' input discovery                       *)

\* The slot numbers n for which a directory slot_n may exist
SlotNumbers == << 1, 2, 3, 4, 5 >>

\* findFramedScreenshots: the slots found, sorted by slot number; none when
\* the locale's directory cannot be read
FindFramedScreenshots(readable, slots) ==
    IF readable THEN SubseqBy(SlotNumbers, slots) ELSE <<>>

\* 02_input_combined/settings.ts: iPhoneScaleFactor 0.9, iPadScaleFactor 0.86
DefaultScaleFactor(deviceType) == IF deviceType = "ipad" THEN <<43, 50>> ELSE <<9, 10>>

\* The inputs the model draws from
BackgroundSizes == { <<4000, 3000>>, <<4000, 4000>>, <<8000, 2000>> }
FramedImageSizes == { <<800, 1600>>, <<1230, 2592>> }
Spacings == {0, 50}
TitleFontSizes == {96, 130}
TitleSpacings == {0, 100}
TitleShadowOffsets == {-3, 1}

\* combineScreenshots: scaledWidth / scaledHeight of one framed image
ScaledDimension(d, scaleFactor) ==
    IF scaleFactor[1] = scaleFactor[2] THEN d
    ELSE MathRound(DoubleMulInt(d, DoubleDiv(scaleFactor[1], scaleFactor[2])))

\* combineScreenshots: framedImages, one entry per path found
FramedImages(framedScreenshotPaths, images, scaleFactor) ==
    [k \in 1..Len(framedScreenshotPaths) |->
        [slot |-> framedScreenshotPaths[k],
         originalWidth |-> images[k][1],
         originalHeight |-> images[k][2],
         width |-> ScaledDimension(images[k][1], scaleFactor),
         height |-> ScaledDimension(images[k][2], scaleFactor)]]

\* calculateCanvasDimensions: pad = Math.ceil(titleFontSize * 0.2) + 1
CanvasTitlePad(titleFontSize) ==
    DoubleCeil(DoubleMulInt(titleFontSize, DoubleDiv(1, 5))) + 1

\* calculateCanvasDimensions: titleHeight
CanvasTitleHeight(titleFontSize, titleSpacing, singleLineTitles) ==
    LET lines == IF singleLineTitles THEN 1 ELSE 2
        pad == CanvasTitlePad(titleFontSize)
        content == DoubleMulInt(lines, DoubleMulInt(titleFontSize, DoubleDiv(6, 5)))
    IN DoubleCeil(DoubleAddInt(content, pad * 2)) + titleSpacing

\* calculateCanvasDimensions(framedImages, spacing, bgWidth, bgHeight,
\* titleFontSize, titleSpacing, centerInQuarters, singleLineTitles)
CalculateCanvasDimensions(framedImages, spacing, bgWidth, bgHeight, titleFontSize, titleSpacing, centerInQuarters, singleLineTitles) ==
    LET imageWidth == framedImages[1].originalWidth
        imageHeight == framedImages[1].originalHeight
        titleHeight == CanvasTitleHeight(titleFontSize, titleSpacing, singleLineTitles)
        totalWidth == (imageWidth * Len(framedImages)) + (spacing * (Len(framedImages) + 1))
        totalHeight == imageHeight + titleHeight + (spacing * 2)
        canvasWidth == Max(bgWidth, totalWidth)
        canvasHeight == Max(bgHeight, totalHeight)
    IN [canvasWidth |-> canvasWidth,
        canvasHeight |-> canvasHeight,
        imageWidth |-> imageWidth,
        imageHeight |-> imageHeight,
        titleHeight |-> titleHeight,
        quarterWidth |-> DoubleFloor(DoubleDiv(canvasWidth, Len(framedImages)))]

\* combineScreenshots: is the background resized?
ResizesBackgroundIfBothExceed(canvasWidth, canvasHeight, bgWidth, bgHeight) ==
    canvasWidth > bgWidth /\ canvasHeight > bgHeight

ResizesBackground(canvasWidth, canvasHeight, bgWidth, bgHeight) ==
    canvasWidth > bgWidth \/ canvasHeight > bgHeight

\* combineScreenshots: resizedBackground
PreparedBackground(canvasWidth, canvasHeight, bgWidth, bgHeight) ==
    IF ResizesBackground(canvasWidth, canvasHeight, bgWidth, bgHeight)
    THEN [resized |-> TRUE, width |-> canvasWidth, height |-> canvasHeight]
    ELSE [resized |-> FALSE, width |-> bgWidth, height |-> bgHeight]

\* combineScreenshots: titleHeight = titleFontSize * (1.2 * linesForSvg) + titleSpacing
PlacementTitleHeight(titleFontSize, titleSpacing, singleLineTitles) ==
    LET linesForSvg == IF singleLineTitles THEN 1 ELSE 2
    IN DoubleAddInt(DoubleMulInt(titleFontSize, DoubleMulInt(linesForSvg, DoubleDiv(6, 5))),
                    titleSpacing)

\* combineScreenshots: leftPosition of the image at index (0-based)
ImageLeftOfOriginal(index, framedImage, quarterWidth, spacing, centerInQuarters) ==
    IF centerInQuarters
    THEN MathRoundHalves(2 * index * quarterWidth + quarterWidth - framedImage.originalWidth)
    ELSE index * (framedImage.originalWidth + spacing) + spacing

ImageLeft(index, framedImage, quarterWidth, spacing, centerInQuarters) ==
    IF centerInQuarters
    THEN MathRoundHalves(2 * index * quarterWidth + quarterWidth - framedImage.width)
    ELSE LET originalWidth == framedImage.originalWidth
             spaceStart == index * (originalWidth + spacing) + spacing
         IN MathRoundHalves(2 * spaceStart + originalWidth - framedImage.width)

\* combineScreenshots: the image layers pushed onto compositeOperations
ImageOperations(framedImages, quarterWidth, spacing, titleHeight, centerInQuarters) ==
    [k \in 1..Len(framedImages) |->
        [slot |-> framedImages[k].slot,
         left |-> ImageLeft(k - 1, framedImages[k], quarterWidth, spacing, centerInQuarters),
         top |-> DoubleAddInt(titleHeight, spacing),
         width |-> framedImages[k].width,
         height |-> framedImages[k].height]]

\* metadata of the images found: the images at odd and at even places
ImagesFound(n, image, imageOther) ==
    [k \in 1..n |-> IF k % 2 = 1 THEN image ELSE imageOther]

\* `Screenshot ${index + 1}`
ScreenshotTitle(n) ==
    <<"S", "c", "r", "e", "e", "n", "s", "h", "o", "t", " ">>
       \o << CASE n = 1 -> "1" [] n = 2 -> "2" [] n = 3 -> "3" [] n = 4 -> "4" [] OTHER -> "5" >>

\* finalTitles = titles: one entry per slot
FinalTitles(title) == [k \in 1..4 |-> title]

\* finalTitles[index] || `Screenshot ${index + 1}`
TitleText(finalTitles, index) ==
    IF index < Len(finalTitles) /\ finalTitles[index + 1] # <<>>
    THEN finalTitles[index + 1]
    ELSE ScreenshotTitle(index + 1)

\* combineScreenshots: leftPosition of the title at index (0-based)
TitleLeft(index, imageWidth, quarterWidth, spacing, centerInQuarters) ==
    IF centerInQuarters
    THEN MathRoundHalves(2 * index * quarterWidth + quarterWidth - imageWidth)
    ELSE index * (imageWidth + spacing) + spacing

\* spacing + Math.max(0, Math.round((titleHeight - currentTitleSvgHeight) / 2)):
\* the difference of a double below 2^53 and a smaller whole number and its
\* half are exact, and Math.round(v) is the floor of v + 1/2
TitleTop(spacing, titleHeight, svgHeight) ==
    spacing + Max(0, (DoubleFloor(titleHeight) - svgHeight + 1) \div 2)

\* combineScreenshots: the title layers pushed onto compositeOperations;
\* a layer is as wide as the SVG (imageWidth) and as high as svgHeight
TitleOperations(framedImages, finalTitles, titleFontSize, titleShadowOffset, imageWidth, quarterWidth, spacing, titleHeight, centerInQuarters, singleLineTitles) ==
    [k \in 1..Len(framedImages) |->
        LET svg == GenerateTitleSvg(TitleText(finalTitles, k - 1), titleFontSize,
                                    titleShadowOffset, imageWidth,
                                    IF singleLineTitles THEN 1 ELSE 2)
        IN [slot |-> framedImages[k].slot,
            left |-> TitleLeft(k - 1, imageWidth, quarterWidth, spacing, centerInQuarters),
            top |-> TitleTop(spacing, titleHeight, svg.svgHeight),
            width |-> imageWidth,
            height |-> svg.svgHeight,
            renderedLines |-> svg.renderedLines]]

InitCombiner ==
    /\ cDeviceType \in {"iphone", "ipad"}
    /\ cReadable \in BOOLEAN
    /\ cSlots \in SUBSET {SlotNumbers[k] : k \in 1..Len(SlotNumbers)}
    /\ cBackground \in BackgroundSizes
    /\ cImage \in FramedImageSizes
    /\ cImageOther = cImage
    /\ cTitle = <<"a">>
    /\ cScaleFactor \in {DefaultScaleFactor(cDeviceType), <<1, 1>>}
    /\ cSpacing \in Spacings
    /\ cFontSize \in TitleFontSizes
    /\ cTitleSpacing \in TitleSpacings
    /\ cShadowOffset \in TitleShadowOffsets
    /\ cCenter \in BOOLEAN
    /\ cPc = "start"
    /\ cComposite = <<>>
    /\ cLayout = <<>> /\ cResized = <<>> /\ cOps = <<>> /\ cTitleOps = <<>>
    /\ IdleTitle /\ IdleLoad
    /\ IdleBatch /\ IdleSplitter /\ IdleFramer /\ IdleRerun

\* combineScreenshots: if (framedScreenshotPaths.length === 0) throw
CombineThrowsNoInput ==
    /\ cPc = "start"
    /\ Len(FindFramedScreenshots(cReadable, cSlots)) = 0
    /\ cPc' = "threw"
    /\ UNCHANGED <<combineInputs, cComposite, cLayout, cResized, cOps, cTitleOps>>
    /\ UNCHANGED <<titleVars, loadVars>>
    /\ UNCHANGED <<batchVars, splitterVars, framerVars, rerunVars>>

\* combineScreenshots: every image found is scaled, laid out and composed
\* onto the background, and the result is written
CombineWrites ==
    /\ cPc = "start"
    /\ Len(FindFramedScreenshots(cReadable, cSlots)) # 0
    /\ LET singleLineTitles == cDeviceType = "ipad"
           framedScreenshotPaths == FindFramedScreenshots(cReadable, cSlots)
           framedImages == FramedImages(framedScreenshotPaths,
                                        ImagesFound(Len(framedScreenshotPaths), cImage, cImageOther),
                                        cScaleFactor)
           dims == CalculateCanvasDimensions(framedImages, cSpacing, cBackground[1],
                                             cBackground[2], cFontSize, cTitleSpacing,
                                             cCenter, singleLineTitles)
           titleHeight == PlacementTitleHeight(cFontSize, cTitleSpacing, singleLineTitles)
       IN /\ cLayout' = dims
          /\ cResized' = PreparedBackground(dims.canvasWidth, dims.canvasHeight,
                                            cBackground[1], cBackground[2])
          /\ cOps' = ImageOperations(framedImages, dims.quarterWidth, cSpacing,
                                     titleHeight, cCenter)
          /\ cTitleOps' = TitleOperations(framedImages, FinalTitles(cTitle), cFontSize,
                                          cShadowOffset, dims.imageWidth,
                                          dims.quarterWidth, cSpacing, titleHeight,
                                          cCenter, singleLineTitles)
    /\ cComposite' = FindFramedScreenshots(cReadable, cSlots)
    /\ cPc' = "done"
    /\ UNCHANGED combineInputs
    /\ UNCHANGED <<titleVars, loadVars>>
    /\ UNCHANGED <<batchVars, splitterVars, framerVars, rerunVars>>

NextCombiner ==
    \/ CombineThrowsNoInput
    \/ CombineWrites

SpecCombiner == InitCombiner /\ [][NextCombiner]_vars

\* The inputs the layers of a composite are checked for
CompositeSlots == { {}, {1}, {1, 2}, {1, 2, 3, 4}, {1, 3, 5} }
CompositeFontSizes == {28, 96, 130}
CompositeBackgrounds == { <<4000, 3000>>, <<8000, 2000>> }
CompositeTitles == { <<>>, <<"a">>, <<"a", LineBreak, "a">> }

\* combineScreenshots(options) with images of two sizes, given titles and a
\* scale factor of the caller
InitComposite ==
    /\ cDeviceType \in {"iphone", "ipad"}
    /\ cReadable = TRUE
    /\ cSlots \in CompositeSlots
    /\ cBackground \in CompositeBackgrounds
    /\ cImage \in FramedImageSizes
    /\ cImageOther \in FramedImageSizes
    /\ cTitle \in CompositeTitles
    /\ cScaleFactor \in {DefaultScaleFactor(cDeviceType), <<1, 1>>, <<6, 5>>}
    /\ cSpacing \in Spacings
    /\ cFontSize \in CompositeFontSizes
    /\ cTitleSpacing \in TitleSpacings
    /\ cShadowOffset \in TitleShadowOffsets
    /\ cCenter \in BOOLEAN
    /\ cPc = "start"
    /\ cComposite = <<>>
    /\ cLayout = <<>> /\ cResized = <<>> /\ cOps = <<>> /\ cTitleOps = <<>>
    /\ IdleTitle /\ IdleLoad
    /\ IdleBatch /\ IdleSplitter /\ IdleFramer /\ IdleRerun

SpecComposite == InitComposite /\ [][NextCombiner]_vars

-----------------------------------------------------------------------------
(* Claims about the Combiner, checked under SpecCombiner                   *)

\* C5: the Combiner fails with an error and writes no composite whenever
\* fewer than 4 framed slot images are found; every composite written
\* contains exactly 4 images.
C5_FewerThanFourIsAnError ==
    /\ (cPc \in {"done", "threw"} /\ Len(FindFramedScreenshots(cReadable, cSlots)) < 4) =>
          (cPc = "threw" /\ cComposite = <<>>)
    /\ cPc = "done" => Len(cComposite) = 4

-----------------------------------------------------------------------------
(* Where the Framer writes and where the Combiner reads                    *)

\* 02_input_combined/settings.ts: framedScreenshotsPath =
\* path.resolve(__dirname, '../01_input_framed/framed_screenshots')
FramedScreenshotsPath(repo) == << repo, Seg("01_input_framed"), FramedWord >>

\* findFramedScreenshots: framedPath of one slot directory
FramedSlotPath(repo, deviceType, locale, slotDir) ==
    FramedScreenshotsPath(repo) \o << deviceType, locale, slotDir, Seg("framed.png") >>

\* path.relative(screenshotsDir, file)
RelativeToScreenshots(repo, file) ==
    SubSeq(file, Len(ScreenshotsDir(repo)) + 1, Len(file))

\* C11: for every input file <root>/screenshots/<device>/<locale>/<slot>/
\* <name>.png, whatever the directories above it are called, the Framer
\* writes framed_screenshots/<device>/<locale>/<slot>/framed.png, the path
\* findFramedScreenshots reads for that device, locale and slot.
C11_FramedPathIsWhatCombinerReads ==
    stage = "framer" =>
        \A k \in 1..Len(work) :
            LET rel == RelativeToScreenshots(repoDir, work[k])
            IN (result[k] = "ok" /\ Len(rel) = 4) =>
                  FramerOutputPath(repoDir, work[k])
                     = FramedSlotPath(repoDir, rel[1], rel[2], rel[3])

\* C19: a run ends with a nonzero exit status whenever a fatal precondition
\* is unmet: the Framer finds no PNG file, or none for the requested
\* locale; a Combiner or Splitter item throws because its input is absent
\* or too small.
C19_UnmetPreconditionExitsNonzero ==
    pc = "exited" =>
        /\ (stage = "framer" /\ FilteredFiles(repoDir, found, targetLocale) = <<>>)
              => exitCode # 0
        /\ (stage \in {"combiner", "splitter"} /\ threw # {}) => exitCode # 0


\* C27: in batch mode the Framer frames a screenshot as device type ipad
\* (no home-indicator pill) if and only if the file lies under the ipad
\* device folder of the screenshots tree, and as iphone (with home
\* indicator) otherwise, for both input layouts:
\* <device>/<locale>/<slot>/<file>.png and <device>/<locale>/slot_N.png.
C27_IpadFolderFramedAsIpad ==
    stage = "framer" =>
        \A k \in 1..Len(work) :
            attempts[k] > 0 =>
                LET rel == RelativeToScreenshots(repoDir, work[k])
                    deviceType == FramerDeviceType(work[k])
                    bezels == CreateDeviceBezels(2048, 2732, deviceType, MergeSettings(Absent, Absent))
                IN /\ (deviceType = "ipad") <=> (rel[1] = Seg("ipad"))
                   /\ bezels.homeIndicator <=> (rel[1] # Seg("ipad"))

-----------------------------------------------------------------------------
(* Claims about the Combiner's layout, checked under SpecCombiner          *)

\* ceil(a / b) in exact arithmetic, for b > 0
CeilDiv(a, b) == (a + b - 1) \div b

Abs(n) == IF n < 0 THEN 0 - n ELSE n

\* C12: canvasWidth = max(background width, 4 * imageWidth + 5 * spacing)
\* and canvasHeight = max(background height, imageHeight + titleBandHeight
\* + 2 * spacing), with the unscaled image dimensions; hence the canvas is
\* at least as large as the background in both dimensions.
C12_CanvasIsMaxOfBackgroundAndContent ==
    cPc = "done" =>
        /\ cLayout.canvasWidth = Max(cBackground[1], 4 * cImage[1] + 5 * cSpacing)
        /\ cLayout.canvasHeight =
              Max(cBackground[2], cImage[2] + cLayout.titleHeight + 2 * cSpacing)
        /\ cLayout.canvasWidth >= cBackground[1]
        /\ cLayout.canvasHeight >= cBackground[2]

\* C13: the title-band height of the canvas layout equals
\* ceil(fontSize * 1.2 * lines + 2 * pad) + titleSpacing, with lines = 1 for
\* iPad and 2 for iPhone and pad = ceil(fontSize * 0.2) + |titleShadowOffset|.
C13_TitleBandHeightFormula ==
    cPc = "done" =>
        LET lines == IF cDeviceType = "ipad" THEN 1 ELSE 2
            pad == CeilDiv(cFontSize, 5) + Abs(cShadowOffset)
        IN cLayout.titleHeight
              = CeilDiv(6 * cFontSize * lines + 10 * pad, 5) + cTitleSpacing

\* C14: whenever centerInQuarters is set, the quarter width used for
\* positioning equals canvasWidth / 4 exactly, for every canvas width and
\* every number of images found.
C14_QuarterWidthIsCanvasOverFour ==
    (cPc = "done" /\ cCenter) => 4 * cLayout.quarterWidth = cLayout.canvasWidth

\* C15: with centerInQuarters the image of slot index i is placed at
\* left = round(i * quarterWidth + quarterWidth / 2 - scaledWidth / 2), so
\* that its horizontal center is the center of quarter i; 4 equal images on
\* a canvas of width 4000 are centered at 500, 1500, 2500, 3500.
C15_ImagesCenteredInQuarters ==
    (cPc = "done" /\ cCenter) =>
        \A k \in 1..Len(cOps) :
            LET twice == 2 * (k - 1) * cLayout.quarterWidth + cLayout.quarterWidth
                            - cOps[k].width
            IN /\ 2 * cOps[k].left - twice \in {0, 1}
               /\ cOps[k].width = ScaledDimension(ImagesFound(Len(cOps), cImage, cImageOther)[k][1],
                                                  cScaleFactor)
               /\ (cLayout.canvasWidth = 4000 /\ Len(cOps) = 4) =>
                     2 * cOps[k].left + cOps[k].width - 2 * (1000 * k - 500) \in {0, 1}

\* C15 witness: four scaled images composed with centerInQuarters on a
\* canvas of width 4000, centered at 500, 1500, 2500 and 3500.
C15_Witness ==
    /\ cPc = "done" /\ cCenter
    /\ cLayout.canvasWidth = 4000 /\ Len(cOps) = 4
    /\ cOps[1].width < cImage[1]
    /\ \A k \in 1..4 : 2 * cOps[k].left + cOps[k].width = 2 * (1000 * k - 500)

\* C20: the background is resized iff the canvas exceeds it in at least one
\* dimension; when resized its new size is the canvas size, never smaller
\* than the background in either dimension; otherwise it is used unchanged.
C20_BackgroundResizedOnlyUpwards ==
    cPc = "done" =>
        /\ cResized.resized <=> (cLayout.canvasWidth > cBackground[1]
                                 \/ cLayout.canvasHeight > cBackground[2])
        /\ cResized.resized =>
              /\ cResized.width = cLayout.canvasWidth
              /\ cResized.height = cLayout.canvasHeight
              /\ cResized.width >= cBackground[1]
              /\ cResized.height >= cBackground[2]
        /\ ~cResized.resized =>
              /\ cResized.width = cBackground[1]
              /\ cResized.height = cBackground[2]

\* C20 witness: a composite whose canvas exceeds the background in width
\* only, and whose background was resized to the canvas.
C20_Witness ==
    /\ cPc = "done"
    /\ cLayout.canvasWidth > cBackground[1]
    /\ cLayout.canvasHeight = cBackground[2]
    /\ cResized = [resized |-> TRUE, width |-> cLayout.canvasWidth,
                   height |-> cLayout.canvasHeight]

-----------------------------------------------------------------------------
(* Claims about the layers of a composite, checked under SpecComposite     *)

\* The layers handed to composite(): the titles, then the images
Layers == cTitleOps \o [k \in 1..Len(cOps) |-> [cOps[k] EXCEPT !.top = DoubleFloor(cOps[k].top)]]

\* C24: within one Combiner invocation a single title-band height is used
\* everywhere: the value used to compute canvasHeight equals the value used
\* to center the titles vertically and to place the images, whose top is
\* spacing + titleBandHeight, for every font size, title spacing, shadow
\* offset and device type.
C24_OneTitleBandHeight ==
    cPc = "done" =>
        /\ cLayout.canvasHeight
              = Max(cBackground[2], cLayout.imageHeight + cLayout.titleHeight + 2 * cSpacing)
        /\ \A k \in 1..Len(cOps) :
              /\ DoubleIsInteger(cOps[k].top)
              /\ DoubleFloor(cOps[k].top) = cSpacing + cLayout.titleHeight
        /\ \A k \in 1..Len(cTitleOps) :
              cTitleOps[k].top
                 = cSpacing + Max(0, (cLayout.titleHeight - cTitleOps[k].height + 1) \div 2)

\* C25: in every composite the layers do not overlap: each title layer ends
\* at or above the top of the image row (titleTop + svgHeight <= imageTop),
\* and layers of different slots have disjoint horizontal extents, for every
\* non-negative spacing and titleSpacing, every font size and shadow offset,
\* and every scale factor.
C25_LayersDoNotOverlap ==
    cPc = "done" =>
        /\ \A j \in 1..Len(cTitleOps) : \A k \in 1..Len(cOps) :
              cTitleOps[j].top + cTitleOps[j].height <= DoubleFloor(cOps[k].top)
        /\ \A j, k \in 1..Len(Layers) :
              Layers[j].slot # Layers[k].slot =>
                 \/ Layers[j].left + Layers[j].width <= Layers[k].left
                 \/ Layers[k].left + Layers[k].width <= Layers[j].left

\* C28: every layer handed to the compositor lies inside the canvas: left
\* >= 0, top >= 0, left + layerWidth <= canvasWidth and top + layerHeight <=
\* canvasHeight, for every number of images found (1 or more), every
\* non-negative spacing, both layout modes and every positive scale factor
\* (including scale factors above 1).
C28_LayersInsideCanvas ==
    cPc = "done" =>
        /\ \A k \in 1..Len(cTitleOps) :
              /\ cTitleOps[k].left >= 0
              /\ cTitleOps[k].top >= 0
              /\ cTitleOps[k].left + cTitleOps[k].width <= cLayout.canvasWidth
              /\ cTitleOps[k].top + cTitleOps[k].height <= cLayout.canvasHeight
        /\ \A k \in 1..Len(cOps) :
              /\ cOps[k].left >= 0
              /\ cOps[k].left + cOps[k].width <= cLayout.canvasWidth
              /\ DoubleCeil(cOps[k].top) + cOps[k].height <= cLayout.canvasHeight

\* C29: every left and top coordinate passed to the compositor is an
\* integer, for every integer font size, title spacing, spacing and shadow
\* offset and both device types (for example titleFontSize = 28 on iphone,
\* where fontSize * 1.2 * 2 = 67.2).
C29_CoordinatesAreIntegers ==
    cPc = "done" =>
        /\ \A k \in 1..Len(cTitleOps) :
              cTitleOps[k].left \in Int /\ cTitleOps[k].top \in Int
        /\ \A k \in 1..Len(cOps) :
              cOps[k].left \in Int /\ DoubleIsInteger(cOps[k].top)

\* C30: for every slot the title layer is horizontally centered over its
\* image: the title's horizontal center and the scaled image's horizontal
\* center differ by at most one pixel of rounding, in both layout modes and
\* also when the framed images of one composite do not all have the same
\* original width.
C30_TitleCenteredOverImage ==
    cPc = "done" =>
        \A k \in 1..Len(cOps) :
            LET titleCenter2 == 2 * cTitleOps[k].left + cTitleOps[k].width
                imageCenter2 == 2 * cOps[k].left + cOps[k].width
            IN Abs(titleCenter2 - imageCenter2) <= 2

-----------------------------------------------------------------------------
(* generateTitleSvg called on its own                                      *)

InitTitle ==
    /\ tText \in Texts
    /\ tFontSize \in SvgFontSizes
    /\ tShadowOffset \in SvgShadowOffsets
    /\ tWidth \in TitleWidths
    /\ tMaxLines \in {1, 2}
    /\ tPc = "start"
    /\ tSvg = <<>>
    /\ IdleCombine /\ IdleLoad
    /\ IdleBatch /\ IdleSplitter /\ IdleFramer /\ IdleRerun

GenerateTitle ==
    /\ tPc = "start"
    /\ tSvg' = GenerateTitleSvg(tText, tFontSize, tShadowOffset, tWidth, tMaxLines)
    /\ tPc' = "done"
    /\ UNCHANGED <<tText, tFontSize, tShadowOffset, tWidth, tMaxLines>>
    /\ UNCHANGED <<combineVars, loadVars>>
    /\ UNCHANGED <<batchVars, splitterVars, framerVars, rerunVars>>

NextTitle == GenerateTitle

SpecTitle == InitTitle /\ [][NextTitle]_vars

-----------------------------------------------------------------------------
(* Claims about generateTitleSvg, checked under SpecTitle                  *)

\* The words of a line: its non-empty parts between spaces
Words(str) == FilterBoolean(SplitOn(str, " "))

HasLineBreak(str) == \E p \in 1..Len(str) : str[p] = LineBreak

\* The case of C16: two lines allowed, no explicit line break, and a text
\* longer than maxCharsPerLine
WrapCase ==
    /\ tPc = "done" /\ tMaxLines = 2
    /\ ~HasLineBreak(tText)
    /\ Len(tText) > MaxCharsPerLine(tWidth, tFontSize)

\* C16 as stated: for maxLines = 2 and a text without explicit line break
\* that is longer than maxCharsPerLine, the words of line1 followed by the
\* words of line2 are the words of the original text, and line1 is never
\* longer than the original text.
C16_WrapKeepsOriginalWords ==
    WrapCase =>
        /\ Words(tSvg.line1) \o Words(tSvg.line2) = Words(tText)
        /\ Len(tSvg.line1) <= Len(tText)

\* C16, amended: in that case the words of line1 followed by the words of
\* line2 are the words of the XML-escaped text, in order and none dropped,
\* and line1 is never longer than the escaped text.
C16_WrapKeepsEscapedWords ==
    WrapCase =>
        /\ Words(tSvg.line1) \o Words(tSvg.line2) = Words(EscapeXml(tText))
        /\ Len(tSvg.line1) <= Len(EscapeXml(tText))

\* C16 witness: a text with an ampersand was wrapped into two lines.
C16_Witness ==
    /\ WrapCase
    /\ \E p \in 1..Len(tText) : tText[p] = "&"
    /\ tSvg.line2 # <<>>
    /\ Len(Words(tText)) >= 3

\* C17: with maxLines = 1 no second line is rendered, for any text, with
\* or without explicit line breaks, and svgHeight is the one-line height
\* ceil(fontSize * 1.2 + 2 * pad), pad = ceil(fontSize * 0.2) + |shadowOffset|.
C17_SingleLineNeverRendersSecond ==
    (tPc = "done" /\ tMaxLines = 1) =>
        /\ tSvg.line2 = <<>>
        /\ tSvg.renderedLines = 1
        /\ tSvg.svgHeight
              = CeilDiv(6 * tFontSize + 10 * (CeilDiv(tFontSize, 5) + Abs(tShadowOffset)), 5)

\* C17 witness: a text with an explicit line break between two words,
\* rendered with maxLines = 1.
C17_Witness ==
    /\ tPc = "done" /\ tMaxLines = 1
    /\ Len(FilterBoolean(SplitOn(tText, LineBreak))) = 2
    /\ Len(Words(tText)) >= 1
    /\ tSvg.line1 # <<>> /\ tSvg.line2 = <<>>

-----------------------------------------------------------------------------
(* The Combiner's titles: loadTitles                                       *)

\* The translation file of the locale: missing, not parseable as JSON, or
\* parsed; in a parsed file every slot_n is absent, an empty string or a text
TranslationFiles ==
    [kind : {"missing", "unparseable", "parsed"},
     slots : [1..4 -> {"absent", "empty", "text"}]]

\* translations[`slot_${n}`] when it is a text
SlotTitle(n) == <<"title", n>>

\* `Screenshot ${n}`
Placeholder(n) == <<"Screenshot", n>>

\* translations[slotKey]: a string, or undefined
SlotValue(file, n) ==
    [defined |-> file.slots[n] # "absent",
     value |-> IF file.slots[n] = "text" THEN SlotTitle(n) ELSE <<>>]

\* if (translations[slotKey]): undefined and '' are falsy
Truthy(v) == v.defined /\ v.value # <<>>

\* loadTitles(locale): what it returns
LoadTitlesOnlyPresent(file) ==
    IF file.kind # "parsed" THEN [n \in 1..4 |-> Placeholder(n)]
    ELSE SelectSeq([n \in 1..4 |-> SlotValue(file, n).value], LAMBDA t : t # <<>>)

LoadTitles(file) ==
    IF file.kind # "parsed" THEN [n \in 1..4 |-> Placeholder(n)]
    ELSE [n \in 1..4 |->
             IF Truthy(SlotValue(file, n)) THEN SlotValue(file, n).value
             ELSE Placeholder(n)]

InitLoad ==
    /\ lFile \in TranslationFiles
    /\ lPc = "start"
    /\ lTitles = <<>>
    /\ IdleCombine /\ IdleTitle
    /\ IdleBatch /\ IdleSplitter /\ IdleFramer /\ IdleRerun

\* loadTitles returns in every case: the catch turns a missing or
\* unparseable file into the default titles
LoadTitlesReturns ==
    /\ lPc = "start"
    /\ lTitles' = LoadTitles(lFile)
    /\ lPc' = "done"
    /\ UNCHANGED lFile
    /\ UNCHANGED <<combineVars, titleVars>>
    /\ UNCHANGED <<batchVars, splitterVars, framerVars, rerunVars>>

NextLoad == LoadTitlesReturns

SpecLoad == InitLoad /\ [][NextLoad]_vars

-----------------------------------------------------------------------------
(* Claims about loadTitles, checked under SpecLoad                         *)

\* C18 as stated: loadTitles returns exactly 4 titles in slot order; entry
\* n is the file's slot_n value when present, otherwise "Screenshot n"; a
\* missing or unparseable file gives the 4 placeholders and no error.
C18_TitlesAreValuesWhenPresent ==
    lPc = "done" =>
        /\ Len(lTitles) = 4
        /\ \A n \in 1..4 :
              lTitles[n] = IF lFile.kind = "parsed" /\ SlotValue(lFile, n).defined
                           THEN SlotValue(lFile, n).value
                           ELSE Placeholder(n)

\* C18, amended: entry n is the file's slot_n value when it is present and
\* not empty, otherwise "Screenshot n" (an empty string counts as absent);
\* a missing or unparseable file gives the 4 placeholders and no error;
\* only slot_1 and slot_3 populated gives "Screenshot 2" and "Screenshot 4".
C18_TitlesAreValuesWhenNonEmpty ==
    /\ lPc \in {"start", "done"}
    /\ lPc = "done" =>
        /\ Len(lTitles) = 4
        /\ \A n \in 1..4 :
              lTitles[n] = IF lFile.kind = "parsed" /\ lFile.slots[n] = "text"
                           THEN SlotTitle(n)
                           ELSE Placeholder(n)
        /\ lFile.kind # "parsed" => lTitles = [n \in 1..4 |-> Placeholder(n)]

\* C18 witness: a parsed file with only slot_1 and slot_3 populated.
C18_Witness ==
    /\ lPc = "done"
    /\ lFile.kind = "parsed"
    /\ lFile.slots = <<"text", "absent", "text", "absent">>
    /\ lTitles = << SlotTitle(1), Placeholder(2), SlotTitle(3), Placeholder(4) >>

-----------------------------------------------------------------------------
(* A stage run twice over one file tree: the three programs in pipeline     *)
(* order, each run two times on the tree the runs before it left            *)

\* The pixel sizes the screenshots of the tree may have
RerunSizes == { <<1290, 2796>>, <<1170, 2532>> }

\* 00_input/background/bg.png
RerunBackground == <<4000, 3000>>

\* The locales of 00_input/translations
RerunLocales == << "en", "fr" >>

RerunSlotDirs == << Seg("slot_1"), Seg("slot_2") >>

\* entry.name.toLowerCase().endsWith('.png')
IsPng(name) == name \in { Seg("a.png"), Seg("slot_1.png"), Seg("slot_2.png"), Seg("framed.png"), Seg("combined.png") }

\* Does path p lie below directory dir?
IsBelow(p, dir) == Len(p) > Len(dir) /\ SubSeq(p, 1, Len(dir)) = dir

\* The order in which a scan meets the paths of a tree
ScanOrder(repo, files) ==
    LET inputs == FoundFiles(repo, 1..Len(FileUniverse))
        known == {inputs[k] : k \in 1..Len(inputs)}
        others == (DOMAIN files) \ known
        RECURSIVE Listed(_)
        Listed(S) == IF S = {} THEN <<>>
                     ELSE LET p == CHOOSE q \in S : TRUE IN <<p>> \o Listed(S \ {p})
    IN SelectSeq(inputs, LAMBDA p : p \in DOMAIN files) \o Listed(others)

\* findPngFiles(dirPath): the PNG files below dirPath that lie in no
\* directory named 'output'
FindPngFiles(dirPath, repo, files) ==
    SelectSeq(ScanOrder(repo, files),
              LAMBDA p : /\ IsBelow(p, dirPath)
                         /\ IsPng(Basename(p))
                         /\ \A d \in (Len(dirPath) + 1)..(Len(p) - 1) : p[d] # Seg("output"))

\* findFramedScreenshots(basePath, deviceType, locale): the framed.png of
\* the slot directories, in slot order
FindFramedFiles(repo, deviceType, locale, files) ==
    SelectSeq([k \in 1..Len(RerunSlotDirs) |->
                   FramedSlotPath(repo, Seg(deviceType), Seg(locale), RerunSlotDirs[k])],
              LAMBDA p : p \in DOMAIN files)

\* path.join(inputPath, deviceType, locale, 'combined.png') of the splitter
CombinedImagePath(repo, deviceType, locale) ==
    << repo, Seg("02_input_combined"), <<"combined_", "screenshots">>, Seg(deviceType), Seg(locale), Seg("combined.png") >>

\* The work list a run of the stage walks
RerunScan(st, repo, files) ==
    IF st = "framer" THEN FindPngFiles(ScreenshotsDir(repo), repo, files)
    ELSE LocaleItems(RerunLocales)

\* frameScreenshot with the default settings: the file it writes
FramerWrites(repo, files, inputPath) ==
    LET size == files[inputPath]
        bg == CreateDeviceBackground(size[1], size[2], MergeSettings(Absent, Absent))
    IN { [path |-> FramerOutputPath(repo, inputPath),
          image |-> <<bg.frameWidth, bg.frameHeight>>] }

\* combineScreenshots({locale}) with the default settings: the file it
\* writes, none when it throws
CombinerWrites(repo, files, locale) ==
    LET deviceType == DeviceTypeOf(NoDevice)
        framedScreenshotPaths == FindFramedFiles(repo, deviceType, locale, files)
        framedImages == FramedImages(framedScreenshotPaths,
                                     [k \in 1..Len(framedScreenshotPaths) |-> files[framedScreenshotPaths[k]]],
                                     DefaultScaleFactor(deviceType))
        dims == CalculateCanvasDimensions(framedImages, 50, RerunBackground[1], RerunBackground[2],
                                          130, 100, TRUE, deviceType = "ipad")
    IN IF Len(framedScreenshotPaths) = 0 THEN {}
       ELSE { [path |-> CombinerOutputPath(repo, deviceType, locale),
               image |-> <<dims.canvasWidth, dims.canvasHeight>>] }

\* splitScreenshots({locale}) with the default catalog: the files it
\* writes, none when it throws
SplitterWrites(repo, files, locale) ==
    LET deviceType == DeviceTypeOf(NoDevice)
        combinedImagePath == CombinedImagePath(repo, deviceType, locale)
        exists == combinedImagePath \in DOMAIN files
        size == IF exists THEN files[combinedImagePath] ELSE <<0, 0>>
        configs == FilteredConfigs(DEFAULT_DEVICE_CONFIGS, deviceType)
    IN IF SplitError(exists, size[1], size[2]) # "none" THEN {}
       ELSE { [path |-> SplitterSlotPath(repo, configs[c], locale, n),
               image |-> <<configs[c].width,
                           ConfigGeometry(configs[c], size[1], size[2]).finalHeight>>] :
                  c \in 1..Len(configs), n \in 1..4 }

\* The files one work item of the stage writes
RerunWrites(st, repo, files, item) ==
    CASE st = "framer" -> FramerWrites(repo, files, item)
      [] st = "combiner" -> CombinerWrites(repo, files, item[1][1])
      [] OTHER -> SplitterWrites(repo, files, item[1][1])

\* The tree once the files W are written into it
Written(files, W) ==
    LET paths == {w.path : w \in W}
    IN [p \in (DOMAIN files) \cup paths |->
           IF p \in paths THEN (CHOOSE w \in W : w.path = p).image ELSE files[p]]

NextStage(st) == IF st = "framer" THEN "combiner" ELSE "splitter"

InitRerun ==
    /\ rRepo \in RepoDirs
    /\ \E S \in SUBSET (1..Len(FileUniverse)) : \E size \in [S -> RerunSizes] :
          LET inputs == FoundFiles(rRepo, 1..Len(FileUniverse))
          IN rFiles = [p \in {inputs[k] : k \in S} |->
                          size[CHOOSE k \in S : inputs[k] = p]]
    /\ rStage = "framer"
    /\ rRun = 1
    /\ rPc = "scan"
    /\ rWork = <<>>
    /\ rLeft = {}
    /\ rWrote = {}
    /\ rFirstWork = <<>>
    /\ rFirstWrote = {}
    /\ rFirstFiles = <<>>
    /\ IdleBatch /\ IdleSplitter /\ IdleFramer /\ IdleCombiner

\* main: the scan that gives the run its work list
RunScans ==
    /\ rPc = "scan"
    /\ rWork' = RerunScan(rStage, rRepo, rFiles)
    /\ rLeft' = 1..Len(RerunScan(rStage, rRepo, rFiles))
    /\ rWrote' = {}
    /\ rPc' = "writing"
    /\ UNCHANGED <<rRepo, rFiles, rStage, rRun, rFirstWork, rFirstWrote, rFirstFiles>>
    /\ UNCHANGED <<batchVars, splitterVars, framerVars, combinerVars>>

\* One item of the chunk in progress settles: its files are written, in
\* whatever order the items of the chunk complete
ItemSettles(k) ==
    /\ rPc = "writing"
    /\ k \in rLeft
    /\ \A j \in rLeft : ChunkOf(rStage, k) <= ChunkOf(rStage, j)
    /\ rFiles' = Written(rFiles, RerunWrites(rStage, rRepo, rFiles, rWork[k]))
    /\ rWrote' = rWrote \cup RerunWrites(rStage, rRepo, rFiles, rWork[k])
    /\ rLeft' = rLeft \ {k}
    /\ UNCHANGED <<rRepo, rStage, rRun, rPc, rWork, rFirstWork, rFirstWrote, rFirstFiles>>
    /\ UNCHANGED <<batchVars, splitterVars, framerVars, combinerVars>>

\* The batch loop ends; the first run of a stage is remembered
RunEnds ==
    /\ rPc = "writing"
    /\ rLeft = {}
    /\ rPc' = "ended"
    /\ IF rRun = 1
       THEN rFirstWork' = rWork /\ rFirstWrote' = rWrote /\ rFirstFiles' = rFiles
       ELSE UNCHANGED <<rFirstWork, rFirstWrote, rFirstFiles>>
    /\ UNCHANGED <<rRepo, rFiles, rStage, rRun, rWork, rLeft, rWrote>>
    /\ UNCHANGED <<batchVars, splitterVars, framerVars, combinerVars>>

\* The stage is started again, or the next stage of the pipeline is started
RunStarts ==
    /\ rPc = "ended"
    /\ rRun = 1 \/ rStage # "splitter"
    /\ IF rRun = 1
       THEN rRun' = 2 /\ rStage' = rStage
       ELSE rRun' = 1 /\ rStage' = NextStage(rStage)
    /\ rPc' = "scan"
    /\ UNCHANGED <<rRepo, rFiles, rWork, rLeft, rWrote, rFirstWork, rFirstWrote, rFirstFiles>>
    /\ UNCHANGED <<batchVars, splitterVars, framerVars, combinerVars>>

NextRerun ==
    \/ RunScans
    \/ \E k \in 1..Len(rWork) : ItemSettles(k)
    \/ RunEnds
    \/ RunStarts

SpecRerun == InitRerun /\ [][NextRerun]_vars

-----------------------------------------------------------------------------
(* Claims about running a stage twice, checked under SpecRerun              *)

\* C23: each stage is idempotent: a second run on unchanged inputs and
\* settings produces the same set of output paths with the same computed
\* geometry as the first run (outputs are overwritten, none added), and the
\* second run never picks up the first run's outputs as additional inputs.
C23_SecondRunRepeatsFirst ==
    (rRun = 2 /\ rPc = "ended") =>
        /\ rWork = rFirstWork
        /\ \A k \in 1..Len(rWork) : \A w \in rFirstWrote : rWork[k] # w.path
        /\ {w.path : w \in rWrote} = {w.path : w \in rFirstWrote}
        /\ DOMAIN rFiles = DOMAIN rFirstFiles
        /\ rFiles = rFirstFiles

=============================================================================
